---- MODULE Spec2Model ----
(***************************************************************************)
(* Ledger analysis of Niu Ma Tools (server/index.mjs): the classifier      *)
(* assignLedgerDepartment and the POST /api/ledger-analysis handler.       *)
(*                                                                         *)
(* A JavaScript string is modelled as the sequence of its characters.      *)
(* Every character of the source is written as an ASCII token (its pinyin, *)
(* with a digit where two characters share one):                           *)
(*   xiang=向 yang=阳 cheng=城 guan=管 da=大 dui=队 tie=铁 dong=东 quan=全 *)
(*   ning=宁 zhen=振 xing=兴 song=松 zhou=州 yu=玉 long=龙 an=安 san=三 *)
(*   er=二 bei=北 jing=京 yang2=养 hu=护 ji=集 tuan=团 shi=市 zheng=政 *)
(*   bu=部 huan=环 jing2=境 wei=卫 sheng=生 fu=服 wu=务 zhong=中 xin=心 *)
(*   gong=公 si=司 yuan=园 lin=林 yi=亿 ting=停 che=车 li=理 ren=人 shi2=事 *)
(*   cai=财 gu=股 zhi=直 shu=属 zhi2=智 hui=慧 ze=责 cheng2=成 jin=进 *)
(*   xing2=行 li2=立 ji2=即 zhuan=转 chu=处 ban=办 ke=科 shi3=室 wu2=无 *)
(*   guan2=关 nei=内 rong=容 wei2=未 pi=匹 pei=配 yi2=已 jie=结 he=核 *)
(*   shi4=实 tui=退 hui2=回 zong=总 ji3=计 *)
(* "fw(" and "fw)" are the full-width parentheses, "ids" is the            *)
(* ideographic space U+3000.                                               *)
(***************************************************************************)
EXTENDS Integers, Sequences, FiniteSets, TLC

(***************************************************************************)
(* The rule tables (server/index.mjs lines 44-100).                        *)
(***************************************************************************)
\* 市政中心 环卫中心 园林中心 直属二大队 直属三大队 智慧停车管理中心 向阳大队 铁东大队 全宁大队 振兴大队 松州大队 玉龙大队 兴安大队 松城大队 人事财务股
ledgerValidDepartments ==
  << <<"shi", "zheng", "zhong", "xin">>,
     <<"huan", "wei", "zhong", "xin">>,
     <<"yuan", "lin", "zhong", "xin">>,
     <<"zhi", "shu", "er", "da", "dui">>,
     <<"zhi", "shu", "san", "da", "dui">>,
     <<"zhi2", "hui", "ting", "che", "guan", "li", "zhong", "xin">>,
     <<"xiang", "yang", "da", "dui">>,
     <<"tie", "dong", "da", "dui">>,
     <<"quan", "ning", "da", "dui">>,
     <<"zhen", "xing", "da", "dui">>,
     <<"song", "zhou", "da", "dui">>,
     <<"yu", "long", "da", "dui">>,
     <<"xing", "an", "da", "dui">>,
     <<"song", "cheng", "da", "dui">>,
     <<"ren", "shi2", "cai", "wu", "gu">> >>

\* Map entries in insertion order, each <<keyword, department>>.
ledgerKeywordMap ==
  << <<<<"xiang", "yang", "cheng", "guan", "da", "dui">>, <<"xiang", "yang", "da", "dui">>>>,
     <<<<"xiang", "yang", "da", "dui">>, <<"xiang", "yang", "da", "dui">>>>,
     <<<<"tie", "dong", "cheng", "guan", "da", "dui">>, <<"tie", "dong", "da", "dui">>>>,
     <<<<"tie", "dong", "da", "dui">>, <<"tie", "dong", "da", "dui">>>>,
     <<<<"quan", "ning", "cheng", "guan", "da", "dui">>, <<"quan", "ning", "da", "dui">>>>,
     <<<<"quan", "ning", "da", "dui">>, <<"quan", "ning", "da", "dui">>>>,
     <<<<"zhen", "xing", "cheng", "guan", "da", "dui">>, <<"zhen", "xing", "da", "dui">>>>,
     <<<<"zhen", "xing", "da", "dui">>, <<"zhen", "xing", "da", "dui">>>>,
     <<<<"song", "zhou", "cheng", "guan", "da", "dui">>, <<"song", "zhou", "da", "dui">>>>,
     <<<<"song", "zhou", "da", "dui">>, <<"song", "zhou", "da", "dui">>>>,
     <<<<"yu", "long", "cheng", "guan", "da", "dui">>, <<"yu", "long", "da", "dui">>>>,
     <<<<"yu", "long", "da", "dui">>, <<"yu", "long", "da", "dui">>>>,
     <<<<"xing", "an", "cheng", "guan", "da", "dui">>, <<"xing", "an", "da", "dui">>>>,
     <<<<"xing", "an", "da", "dui">>, <<"xing", "an", "da", "dui">>>>,
     <<<<"song", "cheng", "cheng", "guan", "da", "dui">>, <<"song", "cheng", "da", "dui">>>>,
     <<<<"song", "cheng", "da", "dui">>, <<"song", "cheng", "da", "dui">>>>,
     <<<<"san", "da", "dui">>, <<"zhi", "shu", "san", "da", "dui">>>>,
     <<<<"er", "da", "dui">>, <<"zhi", "shu", "er", "da", "dui">>>>,
     <<<<"bei", "jing", "yang2", "hu", "ji", "tuan">>, <<"shi", "zheng", "zhong", "xin">>>>,
     <<<<"shi", "zheng">>, <<"shi", "zheng", "zhong", "xin">>>>,
     <<<<"shi", "zheng", "bu">>, <<"shi", "zheng", "zhong", "xin">>>>,
     <<<<"huan", "jing2", "wei", "sheng", "fu", "wu", "zhong", "xin">>, <<"huan", "wei", "zhong", "xin">>>>,
     <<<<"jing", "huan", "gong", "si">>, <<"huan", "wei", "zhong", "xin">>>>,
     <<<<"huan", "wei">>, <<"huan", "wei", "zhong", "xin">>>>,
     <<<<"yuan", "lin">>, <<"yuan", "lin", "zhong", "xin">>>>,
     <<<<"yi", "cheng">>, <<"yuan", "lin", "zhong", "xin">>>>,
     <<<<"ting", "che", "guan", "li">>, <<"zhi2", "hui", "ting", "che", "guan", "li", "zhong", "xin">>>>,
     <<<<"ting", "che", "fu", "wu", "guan", "li">>, <<"zhi2", "hui", "ting", "che", "guan", "li", "zhong", "xin">>>>,
     <<<<"ren", "shi2", "cai", "wu">>, <<"ren", "shi2", "cai", "wu", "gu">>>> >>

\* The five regular expressions, each  prefix(.*?)suffix : 责成(.*?)进行,
\* 立即转(.*?)进行, 责成(.*?)处办, 立即责成(.*?)进行, 立即责成(.*?)处办.
ledgerPatterns ==
  << [pre |-> <<"ze", "cheng2">>, suf |-> <<"jin", "xing2">>],
     [pre |-> <<"li2", "ji2", "zhuan">>, suf |-> <<"jin", "xing2">>],
     [pre |-> <<"ze", "cheng2">>, suf |-> <<"chu", "ban">>],
     [pre |-> <<"li2", "ji2", "ze", "cheng2">>, suf |-> <<"jin", "xing2">>],
     [pre |-> <<"li2", "ji2", "ze", "cheng2">>, suf |-> <<"chu", "ban">>] >>

\* The marker 未匹配.
UNMATCHED == <<"wei2", "pi", "pei">>

(***************************************************************************)
(* JavaScript values and the string operations the classifier uses.        *)
(***************************************************************************)
\* A value with its typeof; str holds the characters of a string (and the
\* digits of a number, which no string operation may read).
JSString(s) == [type |-> "string", str |-> s]

JSNumber(digits) == [type |-> "number", str |-> digits]

JSNull == [type |-> "object", str |-> <<>>]

JSUndefined == [type |-> "undefined", str |-> <<>>]

\* The outcome of calling a string method on a value that is not a string.
TypeError == <<"TypeError">>

\* White space for String.prototype.trim and for \s.
WhiteSpace == {" ", "\t", "\n", "ids"}

\* Characters the dot of a regular expression does not match.
LineTerminators == {"\n"}

SetMin(S) == CHOOSE x \in S : \A y \in S : x <= y

SetMax(S) == CHOOSE x \in S : \A y \in S : x >= y

\* String.prototype.trim
trim(s) ==
  LET kept == {i \in 1..Len(s) : s[i] \notin WhiteSpace}
  IN  IF kept = {} THEN <<>> ELSE SubSeq(s, SetMin(kept), SetMax(kept))

\* sub occurs in s at index i (1-based)
OccursAt(s, sub, i) ==
  /\ i >= 1
  /\ i + Len(sub) - 1 <= Len(s)
  /\ \A k \in 1..Len(sub) : s[i + k - 1] = sub[k]

\* String.prototype.includes
includes(s, sub) == \E i \in 1..(Len(s) - Len(sub) + 1) : OccursAt(s, sub, i)

\* String.prototype.match with a pattern prefix(.*?)suffix: the leftmost
\* start at which the pattern matches and, from there, the shortest capture;
\* the dot matches no line terminator.
match(s, pattern) ==
  LET pre == pattern.pre
      suf == pattern.suf
      Ends(p) == {q \in (p + Len(pre))..(Len(s) - Len(suf) + 1) :
                    /\ OccursAt(s, suf, q)
                    /\ \A k \in (p + Len(pre))..(q - 1) : s[k] \notin LineTerminators}
      Starts == {p \in 1..Len(s) : OccursAt(s, pre, p) /\ Ends(p) # {}}
  IN  IF Starts = {}
      THEN [found |-> FALSE, capture |-> <<>>]
      ELSE LET p == SetMin(Starts)
           IN  [found |-> TRUE,
                capture |-> SubSeq(s, p + Len(pre), SetMin(Ends(p)) - 1)]

\* String.prototype.replace(/[()（）\s]/g, '')
StripParensAndSpace(s) ==
  SelectSeq(s, LAMBDA c : c \notin ({"(", ")", "fw(", "fw)"} \cup WhiteSpace))

\* String.prototype.replace(/科室/, ''), without the g flag: the first
\* occurrence only.
RECURSIVE StripKeShiOnce(_)
StripKeShiOnce(s) ==
  IF Len(s) < 2 THEN s
  ELSE IF s[1] = "ke" /\ s[2] = "shi3" THEN SubSeq(s, 3, Len(s))
  ELSE <<s[1]>> \o StripKeShiOnce(Tail(s))

\* String.prototype.replace(/科室/g, ''): every occurrence, left to right.
RECURSIVE StripKeShi(_)
StripKeShi(s) ==
  IF Len(s) < 2 THEN s
  ELSE IF s[1] = "ke" /\ s[2] = "shi3" THEN StripKeShi(SubSeq(s, 3, Len(s)))
  ELSE <<s[1]>> \o StripKeShi(Tail(s))

\* Array.prototype.includes on a list of strings
ArrayIncludes(arr, x) == \E i \in DOMAIN arr : arr[i] = x

\* The value of a find that found nothing (never equal to a string here).
undefined == <<"undefined">>

(***************************************************************************)
(* assignLedgerDepartment (server/index.mjs lines 188-224).                *)
(***************************************************************************)
\* KeywordScan as a loop that does not return at the first hit: the last
\* entry whose keyword occurs decides.
KeywordScanLastHit(normalized) ==
  LET hits == {i \in DOMAIN ledgerKeywordMap : includes(normalized, ledgerKeywordMap[i][1])}
  IN  IF hits = {} THEN undefined ELSE ledgerKeywordMap[SetMax(hits)][2]

\* Lines 195-199: the first entry of ledgerKeywordMap, in insertion order,
\* whose keyword normalized includes; undefined when there is none.
KeywordScan(normalized) ==
  LET hits == {i \in DOMAIN ledgerKeywordMap : includes(normalized, ledgerKeywordMap[i][1])}
  IN  IF hits = {} THEN undefined ELSE ledgerKeywordMap[SetMin(hits)][2]

\* Lines 205-207: the capture, trimmed, without parentheses and white space,
\* without 科室, trimmed again.
cleanCapture(capture) == trim(StripKeShi(StripParensAndSpace(trim(capture))))

\* fuzzyMatch that finds nothing for the empty string.
fuzzyMatchNonEmpty(department) ==
  LET hits == {i \in DOMAIN ledgerValidDepartments :
                 department # <<>> /\ includes(ledgerValidDepartments[i], department)}
  IN  IF hits = {} THEN undefined ELSE ledgerValidDepartments[SetMin(hits)]

\* fuzzyMatch with findLast in place of find.
fuzzyMatchLast(department) ==
  LET hits == {i \in DOMAIN ledgerValidDepartments :
                 includes(ledgerValidDepartments[i], department)}
  IN  IF hits = {} THEN undefined ELSE ledgerValidDepartments[SetMax(hits)]

\* Lines 213-215: ledgerValidDepartments.find(valid => valid.includes(department))
fuzzyMatch(department) ==
  LET hits == {i \in DOMAIN ledgerValidDepartments :
                 includes(ledgerValidDepartments[i], department)}
  IN  IF hits = {} THEN undefined ELSE ledgerValidDepartments[SetMin(hits)]

\* ResolveCapture returning the cleaned capture itself when no canonical name
\* contains it.
ResolveCaptureUnchecked(capture) ==
  LET department == cleanCapture(capture)
      hits == {i \in DOMAIN ledgerValidDepartments :
                 includes(ledgerValidDepartments[i], department)}
  IN  IF hits = {} THEN department ELSE ledgerValidDepartments[SetMin(hits)]

\* Lines 209-219: what one pattern's capture resolves to; undefined when the
\* loop goes on to the next pattern.
ResolveCapture(capture) ==
  LET department == cleanCapture(capture)
  IN  IF ArrayIncludes(ledgerValidDepartments, department)
      THEN department
      ELSE fuzzyMatch(department)

\* PatternScan that returns 未匹配 when the first pattern that matches with
\* a capture does not resolve.
RECURSIVE PatternScanFirstMatchOnly(_, _)
PatternScanFirstMatchOnly(normalized, i) ==
  IF i > Len(ledgerPatterns) THEN UNMATCHED
  ELSE LET m == match(normalized, ledgerPatterns[i])
       IN  IF m.found /\ m.capture # <<>>
           THEN LET r == ResolveCapture(m.capture)
                IN  IF r # undefined THEN r ELSE UNMATCHED
           ELSE PatternScanFirstMatchOnly(normalized, i + 1)

\* Lines 201-223: the loop over ledgerPatterns from pattern i on.
RECURSIVE PatternScan(_, _)
PatternScan(normalized, i) ==
  IF i > Len(ledgerPatterns) THEN UNMATCHED
  ELSE LET m == match(normalized, ledgerPatterns[i])
       IN  IF m.found /\ m.capture # <<>>
           THEN LET r == ResolveCapture(m.capture)
                IN  IF r # undefined THEN r ELSE PatternScan(normalized, i + 1)
           ELSE PatternScan(normalized, i + 1)

\* assignLedgerDepartment with the pattern loop before the keyword table.
assignLedgerDepartmentPatternsFirst(content) ==
  IF content.type # "string" \/ Len(trim(content.str)) = 0
  THEN UNMATCHED
  ELSE LET normalized == trim(content.str)
           byPattern == PatternScan(normalized, 1)
           byKeyword == KeywordScan(normalized)
       IN  IF byPattern # UNMATCHED THEN byPattern
           ELSE IF byKeyword # undefined THEN byKeyword
           ELSE UNMATCHED

\* assignLedgerDepartment without the typeof test: trim is called on whatever
\* the cell holds.
assignLedgerDepartmentNoTypeof(content) ==
  IF content.type # "string"
  THEN TypeError
  ELSE IF Len(trim(content.str)) = 0
  THEN UNMATCHED
  ELSE LET normalized == trim(content.str)
           byKeyword == KeywordScan(normalized)
       IN  IF byKeyword # undefined
           THEN byKeyword
           ELSE PatternScan(normalized, 1)

assignLedgerDepartment(content) ==
  IF content.type # "string" \/ Len(trim(content.str)) = 0
  THEN UNMATCHED
  ELSE LET normalized == trim(content.str)
           byKeyword == KeywordScan(normalized)
       IN  IF byKeyword # undefined
           THEN byKeyword
           ELSE PatternScan(normalized, 1)

(***************************************************************************)
(* The texts the classifier is applied to.                                 *)
(***************************************************************************)
\* Longest run of parts in a keyword text and in the span between a
\* pattern's prefix and suffix.
MaxKeywordParts == 2

MaxCaptureParts == 2

RECURSIVE Concat(_)
Concat(parts) == IF parts = <<>> THEN <<>> ELSE Head(parts) \o Concat(Tail(parts))

PartSeqs(parts, n) == UNION {[1..k -> parts] : k \in 0..n}

\* Every keyword of the table, and pieces that join into keywords
\* (市政 + 部, 向阳 + 大队) or surround them (a space).
KeywordParts ==
  {ledgerKeywordMap[i][1] : i \in DOMAIN ledgerKeywordMap}
    \cup {<<"bu">>, <<"xiang", "yang">>, <<"da", "dui">>, <<" ">>}

KeywordTexts == {Concat(ps) : ps \in PartSeqs(KeywordParts, MaxKeywordParts)}

\* Pieces of canonical names that hold no keyword (中心 大队 直属 股), a
\* canonical name split by a space (市 政中心), a keyword (市政), what the
\* cleaning removes (space, full-width parenthesis, 科室) and a line break.
CaptureParts ==
  {<<"zhong", "xin">>, <<"da", "dui">>, <<"zhi", "shu">>, <<"gu">>,
   <<"shi", " ", "zheng", "zhong", "xin">>, <<"shi", "zheng">>,
   <<" ">>, <<"fw(">>, <<"ke", "shi3">>, <<"\n">>}

\* What stands before the span: nothing, 责成, 立即转, 立即责成, a keyword and
\* 责成 (环卫责成), an unresolvable first match and 立即转 (责成无关进行立即转).
Prefixes ==
  {<<>>, <<"ze", "cheng2">>, <<"li2", "ji2", "zhuan">>, <<"li2", "ji2", "ze", "cheng2">>,
   <<"huan", "wei", "ze", "cheng2">>,
   <<"ze", "cheng2", "wu2", "guan2", "jin", "xing2", "li2", "ji2", "zhuan">>}

\* What stands after the span: nothing, 进行, 处办, 进行无关进行.
Suffixes ==
  {<<>>, <<"jin", "xing2">>, <<"chu", "ban">>,
   <<"jin", "xing2", "wu2", "guan2", "jin", "xing2">>}

PatternTexts ==
  {pre \o Concat(ps) \o suf :
     pre \in Prefixes, ps \in PartSeqs(CaptureParts, MaxCaptureParts), suf \in Suffixes}

\* Cell values that are not strings: a number, null, a missing cell.
NonStrings == {JSNumber(<<"4", "2">>), JSNull, JSUndefined}

Contents == {JSString(t) : t \in KeywordTexts \cup PatternTexts} \cup NonStrings

(***************************************************************************)
(* POST /api/ledger-analysis (server/index.mjs lines 318-489): rows.       *)
(* A row object is the sequence of its <<key, value>> pairs in key order.  *)
(***************************************************************************)
\* The column names 答复内容, 权属部门, 处理人, 备注.
ContentColumn == "DaFuNeiRong"

DerivedColumn == "QuanShuBuMen"

HandlerColumn == "ChuLiRen"

RemarkColumn == "BeiZhu"

\* Object.prototype.hasOwnProperty.call(row, key)
hasOwnProperty(row, key) == \E i \in DOMAIN row : row[i][1] = key

\* row[key] of a row that has the key
Get(row, key) == row[CHOOSE i \in DOMAIN row : row[i][1] = key][2]

\* Object.keys(row)
ObjectKeys(row) == [i \in DOMAIN row |-> row[i][1]]

\* { [key]: value, ...row }: the row's own value wins, a new key comes first.
SpreadUnder(row, key, value) ==
  IF hasOwnProperty(row, key) THEN row ELSE <<<<key, value>>>> \o row

\* { ...row, [key]: value }: an existing key keeps its place, a new one comes last.
Spread(row, key, value) ==
  IF hasOwnProperty(row, key)
  THEN [i \in DOMAIN row |-> IF row[i][1] = key THEN <<key, value>> ELSE row[i]]
  ELSE Append(row, <<key, value>>)

\* The handler without the validation of lines 329-334.
missingContentColumnSkipped(headerOrder, rawRows) == FALSE

\* The test of lines 329-331 on the header alone.
missingContentColumnInHeader(headerOrder, rawRows) ==
  ~ArrayIncludes(headerOrder, ContentColumn)

\* Lines 329-331: the condition of the missing-column answer.
missingContentColumn(headerOrder, rawRows) ==
  /\ ~ArrayIncludes(headerOrder, ContentColumn)
  /\ ~\E i \in DOMAIN rawRows : hasOwnProperty(rawRows[i], ContentColumn)

\* Lines 336-340.
processRow(row) ==
  LET content == IF hasOwnProperty(row, ContentColumn)
                 THEN Get(row, ContentColumn)
                 ELSE JSString(<<>>)
      department == assignLedgerDepartment(content)
  IN  Spread(row, DerivedColumn, JSString(department))

processedRowsOf(rawRows) == [i \in DOMAIN rawRows |-> processRow(rawRows[i])]

\* row.权属部门 of a processed row
DepartmentOfRow(row) == Get(row, DerivedColumn).str

\* Line 342.
matchedRowsOf(processedRows) ==
  SelectSeq(processedRows,
            LAMBDA row : ArrayIncludes(ledgerValidDepartments, DepartmentOfRow(row)))

\* The test of line 345 written !matchedRows: an array, empty or not, is
\* truthy.
noMatchedRowsByTruthiness(matchedRows) == FALSE

\* Line 345: matchedRows.length === 0
noMatchedRows(matchedRows) == Len(matchedRows) = 0

\* unmatchedRowsOf with a test for an empty department in place of the
\* negated membership test.
unmatchedRowsOfEmptyOnly(processedRows) ==
  SelectSeq(processedRows, LAMBDA row : DepartmentOfRow(row) = <<>>)

\* Line 343.
unmatchedRowsOf(processedRows) ==
  SelectSeq(processedRows,
            LAMBDA row : ~ArrayIncludes(ledgerValidDepartments, DepartmentOfRow(row)))

\* Lines 349-360.
RECURSIVE PushNew(_, _, _)
PushNew(extraColumns, keys, columnOrderBase) ==
  IF keys = <<>> THEN extraColumns
  ELSE LET key == Head(keys)
           next == IF /\ key # ""
                      /\ key # DerivedColumn
                      /\ ~ArrayIncludes(columnOrderBase, key)
                      /\ ~ArrayIncludes(extraColumns, key)
                   THEN Append(extraColumns, key)
                   ELSE extraColumns
       IN  PushNew(next, Tail(keys), columnOrderBase)

RECURSIVE extraColumnsOf(_, _, _)
extraColumnsOf(extraColumns, processedRows, columnOrderBase) ==
  IF processedRows = <<>> THEN extraColumns
  ELSE extraColumnsOf(PushNew(extraColumns, ObjectKeys(Head(processedRows)), columnOrderBase),
                      Tail(processedRows), columnOrderBase)

\* columnOrderOf with the header taken as it is.
columnOrderOfHeaderUnfiltered(headerOrder, processedRows) ==
  headerOrder \o extraColumnsOf(<<>>, processedRows, headerOrder) \o <<DerivedColumn>>

columnOrderOf(headerOrder, processedRows) ==
  LET columnOrderBase == SelectSeq(headerOrder, LAMBDA header : header # DerivedColumn)
  IN  columnOrderBase \o extraColumnsOf(<<>>, processedRows, columnOrderBase)
        \o <<DerivedColumn>>

(***************************************************************************)
(* Counts, order and ratios (lines 362-389).                               *)
(***************************************************************************)
\* MapIncrement that adds an entry for every record.
MapIncrementAlwaysNew(counts, dept, start) ==
  Append(counts, <<dept, start + 1>>)

\* counts.set(dept, (counts.get(dept) ?? start) + 1) on a Map kept as the
\* sequence of its <<dept, count>> entries in insertion order.
MapIncrement(counts, dept, start) ==
  IF \E i \in DOMAIN counts : counts[i][1] = dept
  THEN [i \in DOMAIN counts |->
          IF counts[i][1] = dept THEN <<dept, counts[i][2] + 1>> ELSE counts[i]]
  ELSE Append(counts, <<dept, start + 1>>)

\* countsOf with a first count of 1 + 1.
RECURSIVE countsOfFromOne(_)
countsOfFromOne(matchedRows) ==
  IF matchedRows = <<>> THEN <<>>
  ELSE MapIncrement(countsOfFromOne(SubSeq(matchedRows, 1, Len(matchedRows) - 1)),
                    DepartmentOfRow(matchedRows[Len(matchedRows)]), 1)

\* Lines 362-366.
RECURSIVE countsOf(_)
countsOf(matchedRows) ==
  IF matchedRows = <<>> THEN <<>>
  ELSE MapIncrement(countsOf(SubSeq(matchedRows, 1, Len(matchedRows) - 1)),
                    DepartmentOfRow(matchedRows[Len(matchedRows)]), 0)

\* The departments in ascending zh-Hans-CN (pinyin) collation order:
\* 环卫中心 全宁大队 人事财务股 市政中心 松城大队 松州大队 铁东大队 向阳大队
\* 兴安大队 玉龙大队 园林中心 振兴大队 直属二大队 直属三大队 智慧停车管理中心
\* (positions in ledgerValidDepartments).
zhHansCN == <<2, 9, 15, 1, 14, 11, 8, 7, 13, 12, 3, 10, 4, 5, 6>>

CollationRank(dept) ==
  CHOOSE r \in DOMAIN zhHansCN : ledgerValidDepartments[zhHansCN[r]] = dept

\* a.localeCompare(b, 'zh-Hans-CN')
localeCompare(a, b) == CollationRank(a) - CollationRank(b)

\* The comparator without its tie-break.
compareEntriesCountOnly(a, b) == b[2] - a[2]

\* Lines 372-377: the comparator.
compareEntries(a, b) ==
  IF b[2] # a[2] THEN b[2] - a[2] ELSE localeCompare(a[1], b[1])

\* Array.prototype.sort (stable): each entry goes behind the entries that do
\* not compare greater than it.
InsertEntry(sorted, e) ==
  LET behind == {i \in DOMAIN sorted : compareEntries(sorted[i], e) <= 0}
      k == IF behind = {} THEN 0 ELSE SetMax(behind)
  IN  SubSeq(sorted, 1, k) \o <<e>> \o SubSeq(sorted, k + 1, Len(sorted))

RECURSIVE sortEntries(_)
sortEntries(entries) ==
  IF entries = <<>> THEN <<>>
  ELSE InsertEntry(sortEntries(SubSeq(entries, 1, Len(entries) - 1)), entries[Len(entries)])

\* String(n) for a non-negative integer.
Digit(d) == <<"0", "1", "2", "3", "4", "5", "6", "7", "8", "9">>[d + 1]

RECURSIVE String(_)
String(n) == IF n < 10 THEN <<Digit(n)>> ELSE String(n \div 10) \o <<Digit(n % 10)>>

\* toFixedPercent truncating instead of rounding.
toFixedPercentTruncated(count, totalProcessed) ==
  LET hundredths == (10000 * count) \div totalProcessed
  IN  String(hundredths \div 100)
        \o <<".", Digit((hundredths % 100) \div 10), Digit(hundredths % 10), "%">>

\* `${((count / totalProcessed) * 100).toFixed(2)}%`: the nearest multiple of
\* 0.01, the larger one of two equally near (no quotient is that near a tie
\* that the floating-point error matters while totalProcessed < 3125).
toFixedPercent(count, totalProcessed) ==
  LET hundredths == (20000 * count + totalProcessed) \div (2 * totalProcessed)
  IN  String(hundredths \div 100)
        \o <<".", Digit((hundredths % 100) \div 10), Digit(hundredths % 10), "%">>

\* The labels 已办结, 核实退回, 总计.
ProcessedLabel == <<"yi2", "ban", "jie">>

UnmatchedLabel == <<"he", "shi4", "tui", "hui2">>

TotalLabel == <<"zong", "ji3">>

\* analysisRowsOf with the three summary rows put in front (unshift).
analysisRowsOfSummaryFirst(analysisEntries, totalProcessed, totalUnmatched) ==
  << [department |-> ProcessedLabel, count |-> totalProcessed, ratio |-> <<>>],
     [department |-> UnmatchedLabel, count |-> totalUnmatched, ratio |-> <<>>],
     [department |-> TotalLabel, count |-> totalProcessed + totalUnmatched,
      ratio |-> <<>>] >>
    \o [i \in DOMAIN analysisEntries |->
          [department |-> analysisEntries[i][1],
           count |-> analysisEntries[i][2],
           ratio |-> toFixedPercent(analysisEntries[i][2], totalProcessed)]]

\* analysisRowsOf with the ratio taken of all rows, matched or not.
analysisRowsOfGrandTotal(analysisEntries, totalProcessed, totalUnmatched) ==
  [i \in DOMAIN analysisEntries |->
     [department |-> analysisEntries[i][1],
      count |-> analysisEntries[i][2],
      ratio |-> toFixedPercent(analysisEntries[i][2], totalProcessed + totalUnmatched)]]
    \o << [department |-> ProcessedLabel, count |-> totalProcessed, ratio |-> <<>>],
          [department |-> UnmatchedLabel, count |-> totalUnmatched, ratio |-> <<>>],
          [department |-> TotalLabel, count |-> totalProcessed + totalUnmatched,
           ratio |-> <<>>] >>

\* Lines 379-389.
analysisRowsOf(analysisEntries, totalProcessed, totalUnmatched) ==
  [i \in DOMAIN analysisEntries |->
     [department |-> analysisEntries[i][1],
      count |-> analysisEntries[i][2],
      ratio |-> IF totalProcessed > 0
                THEN toFixedPercent(analysisEntries[i][2], totalProcessed)
                ELSE <<"0", ".", "0", "0", "%">>]]
    \o << [department |-> ProcessedLabel, count |-> totalProcessed, ratio |-> <<>>],
          [department |-> UnmatchedLabel, count |-> totalUnmatched, ratio |-> <<>>],
          [department |-> TotalLabel, count |-> totalProcessed + totalUnmatched,
           ratio |-> <<>>] >>

(***************************************************************************)
(* The uploads the handler is given: a header list and decoded rows.       *)
(***************************************************************************)
\* Most rows in arbitrary order before the ledger, and most ledger rows.
MaxExtraRows == 2

MaxLedgerRows == 7

\* Rows with the contents 责成向阳城管大队进行处理, 无关内容, 立即转三大队处办
\* (and a 处理人), no 答复内容 at all, 责成中心进行 (and an empty 备注), the
\* number 42 (and a 权属部门 of its own, 旧).
SampleRows ==
  { << <<ContentColumn, JSString(<<"ze", "cheng2", "xiang", "yang", "cheng", "guan",
                                    "da", "dui", "jin", "xing2", "chu", "li">>)>> >>,
    << <<ContentColumn, JSString(<<"wu2", "guan2", "nei", "rong">>)>> >>,
    << <<ContentColumn, JSString(<<"li2", "ji2", "zhuan", "san", "da", "dui",
                                    "chu", "ban">>)>>,
       <<HandlerColumn, JSString(<<"zhang">>)>> >>,
    << <<HandlerColumn, JSString(<<"zhang">>)>> >>,
    << <<ContentColumn, JSString(<<"ze", "cheng2", "zhong", "xin", "jin", "xing2">>)>>,
       <<RemarkColumn, JSString(<<>>)>> >>,
    << <<DerivedColumn, JSString(<<"jiu">>)>>,
       <<ContentColumn, JSNumber(<<"4", "2">>)>> >> }

\* Row i of a ledger with one row for each canonical department, in the
\* order of ledgerValidDepartments: 责成<department>进行处理.
LedgerRow(i) ==
  << <<ContentColumn,
       JSString(<<"ze", "cheng2">> \o ledgerValidDepartments[i]
                  \o <<"jin", "xing2", "chu", "li">>)>>,
     <<HandlerColumn, JSString(<<>>)>> >>

Ledger(n) == [i \in 1..n |-> LedgerRow(i)]

RowLists ==
  {extra \o Ledger(n) : extra \in PartSeqs(SampleRows, MaxExtraRows), n \in 0..MaxLedgerRows}

\* The first row of the sheet, trimmed, without empty names (lines 318-321).
HeaderOrders ==
  {<<>>, <<ContentColumn, HandlerColumn>>, <<HandlerColumn, DerivedColumn>>}

(***************************************************************************)
(* State.                                                                  *)
(***************************************************************************)
VARIABLES
  content,      \* the argument of one call of assignLedgerDepartment
  returned,     \* what that call returned
  pc,           \* where the request handler is
  headerOrder,  \* the handler's headerOrder
  rawRows,      \* the handler's rawRows
  workbook,     \* the ExcelJS workbook: its sheets in the order they were added
  totals,       \* totalProcessed, totalUnmatched, grandTotal
  res,          \* the response
  current,      \* the request whose callback the event loop is running
  suspended,    \* the locals of the other request, kept while it waits
  cpc,          \* where the handler of POST /api/convert is
  tempFile,     \* its tempFile: undefined, the created file, or null
  finished,     \* its finished
  convertRes,   \* its res: headersSent, writableEnded, destroyed, and what was sent
  ffmpeg,       \* the spawned process: killed, and whether its stdout has ended
  cleanups,     \* how many times tempFile.cleanup was invoked
  fired,        \* how many times each event of the conversion was emitted
  window,       \* typeof window where the store runs
  store,        \* the store's state: status, result, error
  ffmpegInstance, \* the module's ffmpegInstance
  loadPromise,  \* the module's loadPromise
  tasks         \* commandQueue: the task of every convert call, in call order

cvars == <<content, returned>>

hvars == <<pc, headerOrder, rawRows, workbook, totals, res>>

\* What the event loop keeps of the requests.
ovars == <<current, suspended>>

\* The handler of POST /api/convert.
kvars == <<cpc, tempFile, finished, convertRes, ffmpeg, cleanups, fired>>

\* The browser conversion store and its module.
svars == <<window, store, ffmpegInstance, loadPromise, tasks>>

xvars == <<kvars, svars>>

vars ==
  <<content, returned, pc, headerOrder, rawRows, workbook, totals, res, current, suspended,
    cpc, tempFile, finished, convertRes, ffmpeg, cleanups, fired,
    window, store, ffmpegInstance, loadPromise, tasks>>

\* Before the call returns.
NotCalled == <<"pending">>

NoResponse == [status |-> 0, error |-> "", headers |-> {}, body |-> ""]

NoTotals == [totalProcessed |-> 0, totalUnmatched |-> 0, grandTotal |-> 0]

\* The locals of a request whose handler has not run yet.
IdleContext ==
  [pc |-> "request", headerOrder |-> <<>>, rawRows |-> <<>>, workbook |-> <<>>,
   totals |-> NoTotals, res |-> NoResponse]

\* res of POST /api/convert before anything was sent.
NoConvertResponse ==
  [headersSent |-> FALSE, writableEnded |-> FALSE, destroyed |-> FALSE,
   statusCode |-> 200, bodies |-> <<>>, destroyCalls |-> 0]

NoEvents == [ffmpegError |-> 0, stdoutError |-> 0, ffmpegClose |-> 0, resClose |-> 0]

\* POST /api/convert before the request.
ConvertIdle ==
  /\ cpc = "request"
  /\ tempFile = "undefined"
  /\ finished = FALSE
  /\ convertRes = NoConvertResponse
  /\ ffmpeg = [spawned |-> FALSE, killed |-> FALSE, stdoutEnded |-> FALSE]
  /\ cleanups = 0
  /\ fired = NoEvents

\* Lines 33-35 and 70-72: the module and the store as created.
StoreIdle ==
  /\ store = [status |-> "idle", result |-> "null", error |-> "null"]
  /\ ffmpegInstance = "null"
  /\ loadPromise = "null"
  /\ tasks = <<>>

HandlerIdle ==
  /\ ConvertIdle
  /\ StoreIdle
  /\ pc = "request"
  /\ headerOrder = <<>>
  /\ rawRows = <<>>
  /\ workbook = <<>>
  /\ totals = NoTotals
  /\ res = NoResponse
  /\ current = 1
  /\ suspended = IdleContext

(***************************************************************************)
(* The classifier applied to one content value.                            *)
(***************************************************************************)
InitClassify ==
  /\ content \in Contents
  /\ returned = NotCalled
  /\ HandlerIdle
  /\ window = "object"

Classify ==
  /\ returned = NotCalled
  /\ returned' = assignLedgerDepartment(content)
  /\ UNCHANGED content
  /\ UNCHANGED hvars
  /\ UNCHANGED ovars
  /\ UNCHANGED xvars

NextClassify == Classify

SpecClassify == InitClassify /\ [][NextClassify]_vars

(***************************************************************************)
(* The request handler from the decoded sheet on (lines 318-489).          *)
(***************************************************************************)
Init ==
  /\ content = JSUndefined
  /\ returned = NotCalled
  /\ HandlerIdle
  /\ window = "object"

\* Reject without status(400): res.json({ ok: false, error }) answers 200.
RejectWithoutStatus(error) ==
  /\ pc' = "done"
  /\ res' = [status |-> 200, error |-> error, headers |-> {}, body |-> "json"]
  /\ UNCHANGED <<workbook, totals>>

\* res.status(400).json({ ok: false, error })
Reject(error) ==
  /\ pc' = "done"
  /\ res' = [status |-> 400, error |-> error, headers |-> {}, body |-> "json"]
  /\ UNCHANGED <<workbook, totals>>

\* workbookOf with the sheet of the unmatched records added second.
workbookOfUnmatchedSecond(columnOrder, matchedRows, analysisRows, unmatchedRows) ==
  << [name |-> "FenXiJieGuo", columns |-> columnOrder, rows |-> matchedRows],
     [name |-> "WeiPiPei", columns |-> columnOrder, rows |-> unmatchedRows],
     [name |-> "BuMenFenXi",
      columns |-> <<DerivedColumn, "ShuLiang", "ZhanBi">>,
      rows |-> analysisRows] >>

\* Lines 391-407: the three sheets.
workbookOf(columnOrder, matchedRows, analysisRows, unmatchedRows) ==
  << [name |-> "FenXiJieGuo", columns |-> columnOrder, rows |-> matchedRows],
     [name |-> "BuMenFenXi",
      columns |-> <<DerivedColumn, "ShuLiang", "ZhanBi">>,
      rows |-> analysisRows],
     [name |-> "WeiPiPei", columns |-> columnOrder, rows |-> unmatchedRows] >>

\* Lines 323-468: from the decoded rows to the call of writeBuffer.  (A
\* local constant of the handler that is read more than once is bound by
\* \E over a one-element set, which evaluates it once.)
PostLedgerAnalysisOf(uploadedHeaders, uploadedRows) ==
  /\ pc = "request"
  /\ \E h \in uploadedHeaders, rows \in uploadedRows :
       /\ headerOrder' = h
       /\ rawRows' = rows
       /\ IF Len(rows) = 0
          THEN Reject("EmptyFile")
          ELSE IF missingContentColumn(h, rows)
          THEN Reject("MissingColumn")
          ELSE \E processedRows \in {processedRowsOf(rows)} :
               \E matchedRows \in {matchedRowsOf(processedRows)},
                  unmatchedRows \in {unmatchedRowsOf(processedRows)} :
                 IF noMatchedRows(matchedRows)
                 THEN Reject("NoMatches")
                 ELSE \E counts \in {countsOf(matchedRows)} :
                        LET columnOrder == columnOrderOf(h, processedRows)
                            totalProcessed == Len(matchedRows)
                            totalUnmatched == Len(unmatchedRows)
                            grandTotal == totalProcessed + totalUnmatched
                            analysisEntries == sortEntries(counts)
                            analysisRows ==
                              analysisRowsOf(analysisEntries, totalProcessed, totalUnmatched)
                        IN  /\ workbook' = workbookOf(columnOrder, matchedRows,
                                                      analysisRows, unmatchedRows)
                            /\ totals' = [totalProcessed |-> totalProcessed,
                                          totalUnmatched |-> totalUnmatched,
                                          grandTotal |-> grandTotal]
                            /\ pc' = "writeBuffer"
                            /\ UNCHANGED res
  /\ UNCHANGED cvars
  /\ UNCHANGED ovars
  /\ UNCHANGED xvars

\* The handler given any of the uploads.
PostLedgerAnalysis == PostLedgerAnalysisOf(HeaderOrders, RowLists)

\* Lines 471-484: writeBuffer resolved.
WriteBufferResolved ==
  /\ pc = "writeBuffer"
  /\ pc' = "done"
  /\ res' = [status |-> 200,
             error |-> "",
             headers |-> {<<"X-Analysis-Processed", String(totals.totalProcessed)>>,
                          <<"X-Analysis-Unmatched", String(totals.totalUnmatched)>>,
                          <<"X-Analysis-Total", String(totals.grandTotal)>>},
             body |-> "xlsx"]
  /\ UNCHANGED <<headerOrder, rawRows, workbook, totals>>
  /\ UNCHANGED cvars
  /\ UNCHANGED ovars
  /\ UNCHANGED xvars

\* Lines 485-488: writeBuffer rejected.
WriteBufferRejected ==
  /\ pc = "writeBuffer"
  /\ pc' = "done"
  /\ res' = [status |-> 500, error |-> "WriteFailed", headers |-> {}, body |-> "json"]
  /\ UNCHANGED <<headerOrder, rawRows, workbook, totals>>
  /\ UNCHANGED cvars
  /\ UNCHANGED ovars
  /\ UNCHANGED xvars

Next == PostLedgerAnalysis \/ WriteBufferResolved \/ WriteBufferRejected

Spec == Init /\ [][Next]_vars

(***************************************************************************)
(* Two requests on the one thread of the event loop.  A handler runs from  *)
(* its start to its await (line 471) and from there to its end without     *)
(* giving way; between these runs the event loop may go on with the other  *)
(* request, whose locals (all of them const or let inside the callback)    *)
(* wait in its closure.                                                    *)
(***************************************************************************)
\* Most rows of an upload of two requests at a time.
MaxConcurrentRows == 2

\* A row for 市政中心 and a row with a 处理人 and no 答复内容.
ConcurrentRows == {LedgerRow(1), << <<HandlerColumn, JSString(<<"zhang">>)>> >>}

ConcurrentRowLists == PartSeqs(ConcurrentRows, MaxConcurrentRows)

ConcurrentHeaderOrders == {<<>>, <<ContentColumn, HandlerColumn>>}

\* The locals of the request that is running.
LiveContext ==
  [pc |-> pc, headerOrder |-> headerOrder, rawRows |-> rawRows, workbook |-> workbook,
   totals |-> totals, res |-> res]

\* Switch with totalProcessed, totalUnmatched and grandTotal declared outside
\* the callback: they stay as the request that ran last has set them.
SwitchSharingTotals ==
  /\ suspended' = [LiveContext EXCEPT !.totals = NoTotals]
  /\ pc' = suspended.pc
  /\ headerOrder' = suspended.headerOrder
  /\ rawRows' = suspended.rawRows
  /\ workbook' = suspended.workbook
  /\ res' = suspended.res
  /\ current' = 3 - current
  /\ UNCHANGED totals
  /\ UNCHANGED cvars
  /\ UNCHANGED xvars

\* The event loop turns to the other request: the callback that ran keeps
\* its locals, the one that goes on finds its own.
Switch ==
  /\ suspended' = LiveContext
  /\ pc' = suspended.pc
  /\ headerOrder' = suspended.headerOrder
  /\ rawRows' = suspended.rawRows
  /\ workbook' = suspended.workbook
  /\ totals' = suspended.totals
  /\ res' = suspended.res
  /\ current' = 3 - current
  /\ UNCHANGED cvars
  /\ UNCHANGED xvars

PostLedgerAnalysisConcurrent ==
  PostLedgerAnalysisOf(ConcurrentHeaderOrders, ConcurrentRowLists)

NextConcurrent ==
  \/ PostLedgerAnalysisConcurrent
  \/ WriteBufferResolved
  \/ WriteBufferRejected
  \/ Switch

SpecConcurrent == Init /\ [][NextConcurrent]_vars

(***************************************************************************)
(* Properties of assignLedgerDepartment, checked under SpecClassify.       *)
(***************************************************************************)
Returned == returned # NotCalled

IsText == content.type = "string"

KeywordOf(i) == ledgerKeywordMap[i][1]

DepartmentOf(i) == ledgerKeywordMap[i][2]

\* The table entries whose keyword occurs in the text as it was passed in.
KeywordsInText == {i \in DOMAIN ledgerKeywordMap : includes(content.str, KeywordOf(i))}

CanonicalSet == {ledgerValidDepartments[i] : i \in DOMAIN ledgerValidDepartments}

\* C1: when at least one keyword of the table occurs in the text, the result
\* is the department of the earliest table entry whose keyword occurs, also
\* when a pattern would capture the name of another canonical department.
C1_KeywordFirstMatchWins ==
  (Returned /\ IsText) =>
    LET occurring == KeywordsInText
    IN  \A i \in occurring :
          (\A j \in occurring : i <= j) => returned = DepartmentOf(i)

\* A keyword occurs, the pattern loop alone would give another canonical
\* department, and the keyword's department was returned.
C1_Witness ==
  /\ Returned /\ IsText
  /\ KeywordsInText # {}
  /\ PatternScan(trim(content.str), 1) \in CanonicalSet \ {returned}
  /\ returned = DepartmentOf(SetMin(KeywordsInText))

\* C2 as stated: whatever keyword occurs in the text, the result is the
\* department mapped to that very keyword, other keywords notwithstanding.
C2_EveryKeywordDecides ==
  (Returned /\ IsText) =>
    \A i \in KeywordsInText : returned = DepartmentOf(i)

\* C2, amended: a keyword occurring in the text decides the result unless a
\* keyword that stands earlier in the table and maps to another department
\* occurs in the text too; surrounding text and patterns do not matter.
C2_KeywordDecidesUnlessEarlierOne ==
  (Returned /\ IsText) =>
    LET occurring == KeywordsInText
    IN  \A i \in occurring :
          (\A j \in occurring : j < i => DepartmentOf(j) = DepartmentOf(i))
            => returned = DepartmentOf(i)

\* Two keywords of different departments occur and the earlier one decided.
C2_Witness ==
  /\ Returned /\ IsText
  /\ \E i, j \in KeywordsInText :
       /\ i < j
       /\ DepartmentOf(i) # DepartmentOf(j)
       /\ \A k \in KeywordsInText : i <= k
       /\ returned = DepartmentOf(i)

IsBlank == IsText /\ \A k \in DOMAIN content.str : content.str[k] \in WhiteSpace

\* C3: the empty string, a text of white space only and a value that is not
\* a string all give 未匹配.
C3_BlankOrNonStringUnmatched ==
  (Returned /\ (IsBlank \/ ~IsText)) => returned = UNMATCHED

\* A text of two or more white-space characters was classified.
C3_Witness ==
  /\ Returned /\ IsBlank /\ Len(content.str) >= 2
  /\ returned = UNMATCHED

\* C4: the call returns (no TypeError) and the result is a canonical
\* department or 未匹配; every department of the keyword table is canonical.
C4_TotalAndClosed ==
  /\ Returned => returned \in CanonicalSet \cup {UNMATCHED}
  /\ \A i \in DOMAIN ledgerKeywordMap : DepartmentOf(i) \in CanonicalSet

\* A capture that no canonical name contains was classified.
C4_Witness ==
  /\ Returned /\ IsText
  /\ KeywordsInText = {}
  /\ \E i \in DOMAIN ledgerPatterns :
       LET m == match(trim(content.str), ledgerPatterns[i])
       IN  /\ m.found /\ m.capture # <<>>
           /\ \A d \in CanonicalSet : ~includes(d, cleanCapture(m.capture))
  /\ returned = UNMATCHED

\* The canonical departments, by position, whose name contains c.
Containing(c) ==
  {v \in DOMAIN ledgerValidDepartments : includes(ledgerValidDepartments[v], c)}

\* The cleaned capture of pattern i on the trimmed text ("" when none).
CleanedCapture(i) == cleanCapture(match(trim(content.str), ledgerPatterns[i]).capture)

\* The patterns that match with a non-empty capture some canonical name contains.
Resolving ==
  {i \in DOMAIN ledgerPatterns :
     LET m == match(trim(content.str), ledgerPatterns[i])
     IN  m.found /\ m.capture # <<>> /\ Containing(cleanCapture(m.capture)) # {}}

\* C5: with no keyword in the text and a capture that canonical names
\* contain, the result is the earliest department of ledgerValidDepartments
\* whose name contains the cleaned capture: the only one when there is one,
\* the first in list order when there are several.
C5_FirstContainingDepartment ==
  (/\ Returned /\ IsText /\ ~IsBlank
   /\ \A i \in DOMAIN ledgerKeywordMap : ~includes(content.str, KeywordOf(i))) =>
    LET resolving == Resolving
        holders == Containing(CleanedCapture(SetMin(resolving)))
    IN  resolving # {} =>
          /\ returned = ledgerValidDepartments[SetMin(holders)]
          /\ \A v \in holders :
               returned = ledgerValidDepartments[v] => \A w \in holders : v <= w

\* The cleaned capture (直属 or 大队) is in several canonical names and the
\* earliest of them, 直属二大队, was returned.
C5_Witness ==
  /\ Returned /\ IsText /\ ~IsBlank /\ KeywordsInText = {} /\ Resolving # {}
  /\ Cardinality(Containing(CleanedCapture(SetMin(Resolving)))) >= 2
  /\ returned = ledgerValidDepartments[4]

(***************************************************************************)
(* Properties of the report, checked under Spec.                           *)
(***************************************************************************)
\* The response carries a report.
Delivered == pc = "done" /\ res.status = 200

MatchedSheet == workbook[1].rows

Breakdown == workbook[2].rows

UnmatchedSheet == workbook[3].rows

\* The rows for departments and the rows for the three totals.
DepartmentRows == SelectSeq(Breakdown, LAMBDA row : row.department \in CanonicalSet)

SummaryRows ==
  SelectSeq(Breakdown,
            LAMBDA row : row.department \in {ProcessedLabel, UnmatchedLabel, TotalLabel})

\* The count of the one row with this label.
LabelCount(label) ==
  (CHOOSE row \in {Breakdown[i] : i \in DOMAIN Breakdown} : row.department = label).count

DigitValue(c) == CHOOSE d \in 0..9 : Digit(d) = c

IsDigit(c) == \E d \in 0..9 : Digit(d) = c

RECURSIVE ParseDigits(_)
ParseDigits(digits) ==
  IF digits = <<>> THEN 0
  ELSE 10 * ParseDigits(SubSeq(digits, 1, Len(digits) - 1)) + DigitValue(digits[Len(digits)])

HeaderValue(name) == (CHOOSE h \in res.headers : h[1] = name)[2]

RECURSIVE SumCounts(_)
SumCounts(rows) == IF rows = <<>> THEN 0 ELSE Head(rows).count + SumCounts(Tail(rows))

\* C6: in a delivered report the counts of the department rows add up to the
\* processed total (the 已办结 row, the X-Analysis-Processed header) and to
\* the number of rows of the matched-records sheet.
C6_CountsSumToProcessed ==
  Delivered =>
    LET sum == SumCounts(DepartmentRows)
    IN  /\ sum = LabelCount(ProcessedLabel)
        /\ sum = ParseDigits(HeaderValue("X-Analysis-Processed"))
        /\ sum = Len(MatchedSheet)

\* A report with at least three departments, one of them with two or more
\* records, and an unmatched record.
C6_Witness ==
  /\ Delivered
  /\ Len(DepartmentRows) >= 3
  /\ DepartmentRows[1].count >= 2
  /\ Len(UnmatchedSheet) >= 1

\* A row without the derived column.
WithoutDerived(row) == SelectSeq(row, LAMBDA pair : pair[1] # DerivedColumn)

\* How often a row, the derived column apart, stands in a list of rows.
Occurrences(rows, r) == Cardinality({j \in DOMAIN rows : WithoutDerived(rows[j]) = r})

\* C7: every input row is in exactly one of the matched and the unmatched
\* sheet, and processed + unmatched = total = the number of input rows.
C7_MatchedUnmatchedPartition ==
  Delivered =>
    /\ \A i \in DOMAIN rawRows :
         LET r == WithoutDerived(rawRows[i])
         IN  Occurrences(MatchedSheet, r) + Occurrences(UnmatchedSheet, r)
               = Occurrences(rawRows, r)
    /\ Len(MatchedSheet) + Len(UnmatchedSheet) = Len(rawRows)
    /\ LabelCount(ProcessedLabel) = Len(MatchedSheet)
    /\ LabelCount(UnmatchedLabel) = Len(UnmatchedSheet)
    /\ LabelCount(TotalLabel) = Len(rawRows)
    /\ ParseDigits(HeaderValue("X-Analysis-Processed"))
         + ParseDigits(HeaderValue("X-Analysis-Unmatched"))
         = ParseDigits(HeaderValue("X-Analysis-Total"))
    /\ ParseDigits(HeaderValue("X-Analysis-Total")) = Len(rawRows)

\* A report with two or more rows in either sheet, one input row being
\* without 答复内容.
C7_Witness ==
  /\ Delivered
  /\ Len(MatchedSheet) >= 2
  /\ Len(UnmatchedSheet) >= 2
  /\ \E i \in DOMAIN rawRows : ~hasOwnProperty(rawRows[i], ContentColumn)

\* digits "." two digits "%"
WellFormedRatio(ratio) ==
  /\ Len(ratio) >= 5
  /\ ratio[Len(ratio)] = "%"
  /\ ratio[Len(ratio) - 3] = "."
  /\ \A k \in (1..(Len(ratio) - 4)) \cup {Len(ratio) - 2, Len(ratio) - 1} : IsDigit(ratio[k])

\* The value of a well-formed ratio in hundredths of a percent.
Hundredths(ratio) ==
  100 * ParseDigits(SubSeq(ratio, 1, Len(ratio) - 4))
    + ParseDigits(SubSeq(ratio, Len(ratio) - 2, Len(ratio) - 1))

RECURSIVE SumHundredths(_)
SumHundredths(rows) ==
  IF rows = <<>> THEN 0 ELSE Hundredths(Head(rows).ratio) + SumHundredths(Tail(rows))

Abs(n) == IF n < 0 THEN -n ELSE n

\* C8 as stated: the ratios of the department rows add up to a value within
\* 0.02 of 100.00.
C8_RatiosSumWithinTwoHundredths ==
  Delivered => Abs(SumHundredths(DepartmentRows) - 10000) <= 2

\* C8, amended: the ratios of the department rows add up to a value within
\* 0.005 for each department row of 100.00 (so within 0.075 for fifteen).
C8_RatiosSumWithinHalfHundredthPerRow ==
  Delivered =>
    2 * Abs(SumHundredths(DepartmentRows) - 10000) <= Len(DepartmentRows)

\* Seven departments with one record each: 7 x 14.29% = 100.03%.
C8_Witness ==
  /\ Delivered
  /\ Len(DepartmentRows) = 7
  /\ \A i \in DOMAIN DepartmentRows : DepartmentRows[i].count = 1
  /\ SumHundredths(DepartmentRows) = 10003

\* C9: the ratio of a department row is count / processed as a percentage
\* with two decimals and "%", between 0.00% and 100.00%; the ratio of the
\* three summary rows is empty.
C9_RatioOfProcessedTwoDecimals ==
  Delivered =>
    /\ \A i \in DOMAIN DepartmentRows :
         LET row == DepartmentRows[i]
             processed == LabelCount(ProcessedLabel)
         IN  /\ WellFormedRatio(row.ratio)
             /\ Hundredths(row.ratio) \in 0..10000
             /\ 2 * Abs(Hundredths(row.ratio) * processed - 10000 * row.count) <= processed
    /\ Len(SummaryRows) = 3
    /\ \A i \in DOMAIN SummaryRows : SummaryRows[i].ratio = <<>>

\* A report with an unmatched record and a ratio that had to be rounded up
\* (66.67% of three, 28.57% of seven).
C9_Witness ==
  /\ Delivered
  /\ Len(UnmatchedSheet) >= 1
  /\ \E i \in DOMAIN DepartmentRows :
       /\ DepartmentRows[i].count >= 2
       /\ Hundredths(DepartmentRows[i].ratio) * LabelCount(ProcessedLabel)
            > 10000 * DepartmentRows[i].count

\* C10: the department rows are in descending order of count, rows of equal
\* count in ascending zh-Hans-CN order of the name; the counts decide the
\* order, the order of arrival does not.
C10_CountDescendingThenCollation ==
  Delivered =>
    \A i \in 1..(Len(DepartmentRows) - 1) :
      LET a == DepartmentRows[i]
          b == DepartmentRows[i + 1]
      IN  \/ a.count > b.count
          \/ /\ a.count = b.count
             /\ CollationRank(a.department) < CollationRank(b.department)

\* 直属三大队 arrived before 向阳大队, each with one record, and 向阳大队 is
\* listed first.
C10_Witness ==
  /\ Delivered
  /\ Len(DepartmentRows) = 2
  /\ DepartmentRows[1].department = ledgerValidDepartments[7]
  /\ DepartmentRows[2].department = ledgerValidDepartments[5]
  /\ DepartmentRows[1].count = 1
  /\ DepartmentRows[2].count = 1
  /\ DepartmentOfRow(MatchedSheet[1]) = ledgerValidDepartments[5]

\* C11: the breakdown ends with exactly three rows, in this order: 已办结
\* with the number of matched rows, 核实退回 with the number of unmatched
\* rows, 总计 with their sum, each with an empty ratio; every row before
\* them is a row of a canonical department, so none follows them.
C11_BreakdownEndsWithThreeTotals ==
  Delivered =>
    LET n == Len(Breakdown)
    IN  /\ n >= 3
        /\ Breakdown[n - 2] = [department |-> ProcessedLabel,
                               count |-> Len(MatchedSheet), ratio |-> <<>>]
        /\ Breakdown[n - 1] = [department |-> UnmatchedLabel,
                               count |-> Len(UnmatchedSheet), ratio |-> <<>>]
        /\ Breakdown[n] = [department |-> TotalLabel,
                           count |-> Len(MatchedSheet) + Len(UnmatchedSheet),
                           ratio |-> <<>>]
        /\ \A i \in 1..(n - 3) : Breakdown[i].department \in CanonicalSet

\* A breakdown of two department rows and the three totals 2, 1, 3.
C11_Witness ==
  /\ Delivered
  /\ Len(Breakdown) = 5
  /\ Breakdown[1].department \in CanonicalSet
  /\ Breakdown[2].department \in CanonicalSet
  /\ Breakdown[3].count = 2
  /\ Breakdown[4].count = 1
  /\ Breakdown[5].count = 3

Range(seq) == {seq[i] : i \in DOMAIN seq}

\* The keys of the input rows.
RowKeys == UNION {Range(ObjectKeys(rawRows[i])) : i \in DOMAIN rawRows}

\* Where a key of the input rows is first seen: the first row that has it
\* and the key's place in that row.
FirstRowWith(key) == SetMin({i \in DOMAIN rawRows : hasOwnProperty(rawRows[i], key)})

PlaceIn(row, key) == CHOOSE k \in DOMAIN row : row[k][1] = key

SeenBefore(a, b) ==
  \/ FirstRowWith(a) < FirstRowWith(b)
  \/ /\ FirstRowWith(a) = FirstRowWith(b)
     /\ PlaceIn(rawRows[FirstRowWith(a)], a) < PlaceIn(rawRows[FirstRowWith(a)], b)

\* C12: the columns of both record sheets are the header columns in header
\* order without 权属部门, then the columns of the rows that the header does
\* not have, each once and in the order they are first seen, then 权属部门;
\* with an empty header they begin with the keys of the first row.
C12_ColumnOrder ==
  Delivered =>
    LET cols == workbook[1].columns
        base == SelectSeq(headerOrder, LAMBDA header : header # DerivedColumn)
        extra == SubSeq(cols, Len(base) + 1, Len(cols) - 1)
        firstKeys == SelectSeq(ObjectKeys(rawRows[1]), LAMBDA key : key # DerivedColumn)
    IN  /\ workbook[3].columns = cols
        /\ Len(cols) >= Len(base) + 1
        /\ cols[Len(cols)] = DerivedColumn
        /\ \A i \in 1..(Len(cols) - 1) : cols[i] # DerivedColumn
        /\ SubSeq(cols, 1, Len(base)) = base
        /\ Range(extra) = RowKeys \ (Range(base) \cup {DerivedColumn})
        /\ \A i, j \in DOMAIN extra : i < j => SeenBefore(extra[i], extra[j])
        /\ headerOrder = <<>> => SubSeq(cols, 1, Len(firstKeys)) = firstKeys

\* The header 答复内容, 处理人, a row with 备注, and the columns 答复内容,
\* 处理人, 备注, 权属部门.
C12_Witness ==
  /\ Delivered
  /\ headerOrder = <<ContentColumn, HandlerColumn>>
  /\ \E i \in DOMAIN rawRows : hasOwnProperty(rawRows[i], RemarkColumn)
  /\ workbook[1].columns = <<ContentColumn, HandlerColumn, RemarkColumn, DerivedColumn>>
  /\ workbook[3].columns = workbook[1].columns

\* The handler has answered or is writing the workbook.
Handled == pc # "request"

\* 答复内容 is neither in the header list nor a field of any input row.
ColumnAbsent ==
  /\ ~ArrayIncludes(headerOrder, ContentColumn)
  /\ \A i \in DOMAIN rawRows : ~hasOwnProperty(rawRows[i], ContentColumn)

\* Nothing of a report: no workbook, no totals, no X-Analysis-* header.
NoReport == workbook = <<>> /\ totals = NoTotals /\ res.headers = {}

\* C13 as stated: the request fails with the missing-column error exactly
\* when 答复内容 is absent from the header list and from every row.
C13_MissingColumnExactlyWhenAbsent ==
  Handled => (res.error = "MissingColumn" <=> ColumnAbsent)

\* C13, amended: the request fails with the missing-column error exactly when
\* there is at least one row and 答复内容 is absent from the header list and
\* from every row; otherwise the request goes on, and a row without the
\* field gets the department of the empty string, 未匹配; the failure leaves
\* no report and no counters.
C13_MissingColumnExactlyWhenAbsentAndNotEmpty ==
  Handled =>
    /\ res.error = "MissingColumn" <=> (rawRows # <<>> /\ ColumnAbsent)
    /\ res.error = "MissingColumn" => (pc = "done" /\ res.status = 400 /\ NoReport)
    /\ workbook # <<>> =>
         \A i \in DOMAIN rawRows :
           ~hasOwnProperty(rawRows[i], ContentColumn) =>
             \E j \in DOMAIN UnmatchedSheet :
               /\ WithoutDerived(UnmatchedSheet[j]) = WithoutDerived(rawRows[i])
               /\ DepartmentOfRow(UnmatchedSheet[j])
                    = assignLedgerDepartment(JSString(<<>>))

\* Two rows without 答复内容 under a header without it were refused.
C13_Witness ==
  /\ pc = "done"
  /\ res.error = "MissingColumn"
  /\ Len(rawRows) = 2
  /\ headerOrder = <<HandlerColumn, DerivedColumn>>
  /\ NoReport

\* The handler went on to classify the records (line 336): there is a row,
\* and 答复内容 is in the header or in a row.
Classified == Handled /\ rawRows # <<>> /\ ~ColumnAbsent

\* Every record was given 未匹配.
EveryRecordUnmatched ==
  \A i \in DOMAIN rawRows : DepartmentOfRow(processRow(rawRows[i])) = UNMATCHED

ZeroRatio == <<"0", ".", "0", "0", "%">>

Answered == pc = "done"

null == <<"null">>

\* response.headers.get(name)
HeadersGet(headers, name) ==
  IF \E h \in headers : h[1] = name
  THEN (CHOOSE h \in headers : h[1] = name)[2]
  ELSE null

\* parseHeaderNumber: Number.parseInt(value, 10) of the leading digits, 0
\* when there is no value or no leading digit.
parseHeaderNumber(value) ==
  IF value = null \/ value = <<>> THEN 0
  ELSE LET k == SetMax({j \in 0..Len(value) : \A i \in 1..j : IsDigit(value[i])})
       IN  IF k = 0 THEN 0 ELSE ParseDigits(SubSeq(value, 1, k))

\* parseBreakdownHeader: no value gives the empty list; a value is the
\* decoded list of its items without those that have no department.
parseBreakdownHeader(value) ==
  IF value = null \/ value = <<>> THEN <<>>
  ELSE SelectSeq(value, LAMBDA item : item.department # <<>>)

\* The argument of setStats (lines 212-217).
statsOf(response) ==
  [processed |-> parseHeaderNumber(HeadersGet(response.headers, "X-Analysis-Processed")),
   unmatched |-> parseHeaderNumber(HeadersGet(response.headers, "X-Analysis-Unmatched")),
   total |-> parseHeaderNumber(HeadersGet(response.headers, "X-Analysis-Total")),
   breakdown |-> parseBreakdownHeader(HeadersGet(response.headers, "X-Analysis-Breakdown"))]

\* C16 as stated: next to the file, a report carries the three counters and
\* the breakdown list as metadata of the response, so the browser that reads
\* the metadata has the counters and a breakdown that is not empty.
C16_ClientObtainsBreakdown ==
  Delivered =>
    LET stats == statsOf(res)
    IN  /\ stats.processed = totals.totalProcessed
        /\ stats.unmatched = totals.totalUnmatched
        /\ stats.total = totals.grandTotal
        /\ HeadersGet(res.headers, "X-Analysis-Breakdown") # null
        /\ stats.breakdown # <<>>

\* The rows of a list without their derived column.
Stripped(rows) == [i \in DOMAIN rows |-> WithoutDerived(rows[i])]

\* The input rows that stand in a sheet, in input order.
InputRowsIn(sheet) ==
  SelectSeq(Stripped(rawRows), LAMBDA r : r \in Range(Stripped(sheet)))

\* C17: a report has exactly three tables, in this order: the matched
\* records (分析结果), the breakdown (部门分析), the unmatched records (未匹配);
\* the 权属部门 of every matched row is a canonical department, that of every
\* unmatched row is 未匹配; the rows of either sheet are in input order.
C17_ThreeTablesInOrder ==
  Delivered =>
    /\ Len(workbook) = 3
    /\ workbook[1].name = "FenXiJieGuo"
    /\ workbook[2].name = "BuMenFenXi"
    /\ workbook[3].name = "WeiPiPei"
    /\ \A i \in DOMAIN workbook[2].rows : DOMAIN workbook[2].rows[i] = {"department", "count", "ratio"}
    /\ \A i \in DOMAIN MatchedSheet : DepartmentOfRow(MatchedSheet[i]) \in CanonicalSet
    /\ \A i \in DOMAIN UnmatchedSheet : DepartmentOfRow(UnmatchedSheet[i]) = UNMATCHED
    /\ Stripped(MatchedSheet) = InputRowsIn(MatchedSheet)
    /\ Stripped(UnmatchedSheet) = InputRowsIn(UnmatchedSheet)

\* A report for rows that came matched, unmatched, matched, ...: the second
\* input row is the first of the unmatched sheet and the third input row is
\* the second of the matched sheet.
C17_Witness ==
  /\ Delivered
  /\ Len(rawRows) >= 4
  /\ Len(MatchedSheet) >= 3
  /\ Len(UnmatchedSheet) = 1
  /\ WithoutDerived(rawRows[1]) = WithoutDerived(MatchedSheet[1])
  /\ WithoutDerived(rawRows[2]) = WithoutDerived(UnmatchedSheet[1])
  /\ WithoutDerived(rawRows[3]) = WithoutDerived(MatchedSheet[2])
  /\ WithoutDerived(MatchedSheet[1]) # WithoutDerived(MatchedSheet[2])

\* The records of the two record sheets.
OutputRecords == Range(MatchedSheet) \cup Range(UnmatchedSheet)

\* A value the classifier can have given.
IsDepartmentValue(value) ==
  value.type = "string" /\ value.str \in CanonicalSet \cup {UNMATCHED}

\* C18 as stated: every input row, one that has a field 权属部门 already
\* included, is found in the output with all its fields and their values as
\* they were and exactly one field more, 权属部门.
C18_ExactlyOneFieldAdded ==
  Delivered =>
    \A i \in DOMAIN rawRows :
      \E out \in OutputRecords :
        /\ Len(out) = Len(rawRows[i]) + 1
        /\ SubSeq(out, 1, Len(rawRows[i])) = rawRows[i]
        /\ out[Len(out)][1] = DerivedColumn
        /\ IsDepartmentValue(out[Len(out)][2])

\* C18, amended: every input row is found in the output with all its fields
\* other than 权属部门 in their places and with their values, and with one
\* field 权属部门 that holds the department: added as the last field of a
\* row that had none, in the place and instead of the value of one it had.
C18_DerivedFieldAddedOrReplaced ==
  Delivered =>
    \A i \in DOMAIN rawRows :
      LET row == rawRows[i]
          had == hasOwnProperty(row, DerivedColumn)
      IN  \E out \in OutputRecords :
            /\ Len(out) = Len(row) + (IF had THEN 0 ELSE 1)
            /\ \A k \in DOMAIN row :
                 IF row[k][1] = DerivedColumn
                 THEN out[k][1] = DerivedColumn
                 ELSE out[k] = row[k]
            /\ ~had => out[Len(out)][1] = DerivedColumn
            /\ Cardinality({k \in DOMAIN out : out[k][1] = DerivedColumn}) = 1
            /\ IsDepartmentValue(Get(out, DerivedColumn))
            /\ Get(out, DerivedColumn).str
                 = assignLedgerDepartment(IF hasOwnProperty(row, ContentColumn)
                                          THEN Get(row, ContentColumn)
                                          ELSE JSString(<<>>))

\* A report for a row that had come with 权属部门 = 旧 as its first field:
\* its record has 未匹配 there, and another row got the field as its last.
C18_Witness ==
  /\ Delivered
  /\ \E i \in DOMAIN rawRows :
       /\ rawRows[i][1] = <<DerivedColumn, JSString(<<"jiu">>)>>
       /\ \E j \in DOMAIN UnmatchedSheet :
            /\ UnmatchedSheet[j][1] = <<DerivedColumn, JSString(UNMATCHED)>>
            /\ Tail(UnmatchedSheet[j]) = Tail(rawRows[i])
  /\ \E i \in DOMAIN rawRows :
       /\ ~hasOwnProperty(rawRows[i], DerivedColumn)
       /\ Len(rawRows[i]) = 2
       /\ Append(rawRows[i], <<DerivedColumn, JSString(ledgerValidDepartments[5])>>)
            \in Range(MatchedSheet)

(***************************************************************************)
(* Properties of two requests at a time, checked under SpecConcurrent.     *)
(***************************************************************************)
\* What the handler gives for an upload when no other request is there: the
\* error it answers with ("" for none), the workbook and the totals.
AloneOutcome(h, rows) ==
  IF rows = <<>>
  THEN [error |-> "EmptyFile", workbook |-> <<>>, totals |-> NoTotals]
  ELSE IF missingContentColumn(h, rows)
  THEN [error |-> "MissingColumn", workbook |-> <<>>, totals |-> NoTotals]
  ELSE LET processedRows == processedRowsOf(rows)
           matchedRows == matchedRowsOf(processedRows)
           unmatchedRows == unmatchedRowsOf(processedRows)
       IN  IF noMatchedRows(matchedRows)
           THEN [error |-> "NoMatches", workbook |-> <<>>, totals |-> NoTotals]
           ELSE [error |-> "",
                 workbook |->
                   workbookOf(columnOrderOf(h, processedRows), matchedRows,
                              analysisRowsOf(sortEntries(countsOf(matchedRows)),
                                             Len(matchedRows), Len(unmatchedRows)),
                              unmatchedRows),
                 totals |-> [totalProcessed |-> Len(matchedRows),
                             totalUnmatched |-> Len(unmatchedRows),
                             grandTotal |-> Len(matchedRows) + Len(unmatchedRows)]]

\* The answers to that upload when no other request is there.
AloneAnswers(alone) ==
  IF alone.error # ""
  THEN {[status |-> 400, error |-> alone.error, headers |-> {}, body |-> "json"]}
  ELSE {[status |-> 200, error |-> "",
         headers |-> {<<"X-Analysis-Processed", String(alone.totals.totalProcessed)>>,
                      <<"X-Analysis-Unmatched", String(alone.totals.totalUnmatched)>>,
                      <<"X-Analysis-Total", String(alone.totals.grandTotal)>>},
         body |-> "xlsx"],
        [status |-> 500, error |-> "WriteFailed", headers |-> {}, body |-> "json"]}

\* The locals of a request are what they would be with no other request.
AsAlone(c) ==
  IF c.pc = "request" THEN c = IdleContext
  ELSE \E alone \in {AloneOutcome(c.headerOrder, c.rawRows)} :
         /\ c.workbook = alone.workbook
         /\ c.totals = alone.totals
         /\ c.pc = "writeBuffer" => (alone.error = "" /\ c.res = NoResponse)
         /\ c.pc = "done" => c.res \in AloneAnswers(alone)

\* A step of the running request leaves the locals of the waiting one as
\* they are; a turn of the event loop hands each request its own locals.
KeepsApart ==
  /\ current' = current => suspended' = suspended
  /\ current' # current => (suspended' = LiveContext /\ LiveContext' = suspended)

\* C20: no request writes what the other reads: however the steps of two
\* requests follow one another, the locals of each are its own, and each
\* request has the workbook, the counters and the answer that it would have
\* with no other request.
C20_RequestsDoNotInterfere ==
  /\ [](AsAlone(LiveContext) /\ AsAlone(suspended))
  /\ [][KeepsApart]_vars

\* Request 1 has answered with its report of one record while request 2,
\* whose handler has run on another upload, waits for its workbook of two.
C20_Witness ==
  /\ current = 1
  /\ pc = "done"
  /\ res.status = 200
  /\ HeaderValue("X-Analysis-Total") = <<"1">>
  /\ suspended.pc = "writeBuffer"
  /\ suspended.totals.grandTotal = 2
  /\ suspended.rawRows # rawRows

(***************************************************************************)
(* Further properties of assignLedgerDepartment, checked under             *)
(* SpecClassify.                                                           *)
(***************************************************************************)
\* The patterns that match the trimmed text with a capture that is not empty.
Capturing ==
  {i \in DOMAIN ledgerPatterns :
     LET m == match(trim(content.str), ledgerPatterns[i])
     IN  m.found /\ m.capture # <<>>}

\* A text of something else than white space, without any keyword.
PatternCase ==
  /\ Returned /\ IsText /\ ~IsBlank
  /\ \A i \in DOMAIN ledgerKeywordMap : ~includes(content.str, KeywordOf(i))

\* C21 as stated: with no keyword in the text, the first pattern that
\* matches with a capture decides alone: the result is the department its
\* cleaned capture resolves to, 未匹配 when it resolves to none, and 未匹配
\* when no pattern matches.
C21_FirstCapturingPatternDecides ==
  PatternCase =>
    LET capturing == Capturing
    IN  IF capturing = {} THEN returned = UNMATCHED
        ELSE LET holders == Containing(CleanedCapture(SetMin(capturing)))
             IN  returned = IF holders = {} THEN UNMATCHED
                            ELSE ledgerValidDepartments[SetMin(holders)]

\* C21, amended: with no keyword in the text, the patterns are gone through
\* in order and the first one whose cleaned capture is, or is contained in,
\* a canonical name decides; a pattern whose capture resolves to nothing is
\* passed over; the result is 未匹配 when no pattern resolves.
C21_FirstResolvingPatternDecides ==
  PatternCase =>
    LET resolving == Resolving
    IN  /\ resolving \subseteq Capturing
        /\ returned = IF resolving = {} THEN UNMATCHED
                      ELSE ledgerValidDepartments[
                             SetMin(Containing(CleanedCapture(SetMin(resolving))))]

\* The first pattern captured something no canonical name contains, a later
\* pattern captured 中心, and 市政中心 was returned.
C21_Witness ==
  /\ PatternCase
  /\ Capturing # {}
  /\ Resolving # {}
  /\ SetMin(Capturing) < SetMin(Resolving)
  /\ returned = ledgerValidDepartments[1]

\* What pattern i captures in the trimmed text.
CaptureOf(i) == match(trim(content.str), ledgerPatterns[i]).capture

Parentheses == {"(", ")", "fw(", "fw)"}

\* The capture trimmed, without parentheses, and without 科室 where that is
\* its end.
TrailingQualifierRemoved(capture) ==
  LET bare == SelectSeq(trim(capture), LAMBDA c : c \notin Parentheses)
      n == Len(bare)
  IN  IF n >= 2 /\ bare[n - 1] = "ke" /\ bare[n] = "shi3"
      THEN trim(SubSeq(bare, 1, n - 2))
      ELSE bare

\* The capture without parentheses and white space, and of what is left
\* without any 科 that a 室 follows nor that 室.
EveryQualifierRemoved(capture) ==
  LET bare == SelectSeq(capture, LAMBDA c : c \notin Parentheses \cup WhiteSpace)
      at == {k \in 1..(Len(bare) - 1) : bare[k] = "ke" /\ bare[k + 1] = "shi3"}
      kept == {k \in DOMAIN bare : k \notin at /\ (k - 1) \notin at}
      Nth(j) == CHOOSE k \in kept : Cardinality({m \in kept : m <= k}) = j
  IN  [j \in 1..Cardinality(kept) |-> bare[Nth(j)]]

\* C22 as stated: the cleaned capture is the capture trimmed, without
\* parentheses and without a trailing 科室; white space inside it and a 科室
\* elsewhere stay.
C22_TrailingQualifierOnly ==
  PatternCase =>
    \A i \in Capturing : CleanedCapture(i) = TrailingQualifierRemoved(CaptureOf(i))

\* C22, amended: the cleaned capture is the capture without any white
\* space, leading, trailing or inside, without any parenthesis and without
\* any occurrence of 科室, trailing or not; so neither white space inside a
\* name nor a 科室 before it keeps the capture from matching.
C22_EveryQualifierAndSpaceRemoved ==
  PatternCase =>
    \A i \in Capturing :
      LET cleaned == CleanedCapture(i)
      IN  /\ cleaned = EveryQualifierRemoved(CaptureOf(i))
          /\ \A k \in DOMAIN cleaned : cleaned[k] \notin Parentheses \cup WhiteSpace
          /\ (i = SetMin(Capturing) /\ cleaned \in CanonicalSet) => returned = cleaned

\* The capture 市 政中心 with a space inside it (in front of 科室, or after
\* 科室) was cleaned to 市政中心, which was returned.
C22_Witness ==
  /\ PatternCase
  /\ \E i \in Capturing :
       /\ i = SetMin(Capturing)
       /\ includes(CaptureOf(i), <<"shi", " ", "zheng">>)
       /\ includes(CaptureOf(i), <<"ke", "shi3">>)
       /\ CleanedCapture(i) = ledgerValidDepartments[1]
  /\ returned = ledgerValidDepartments[1]

\* C23: of two keywords of the table of which one is part of the other, the
\* longer one stands earlier; so the entry of a keyword is the one that
\* decides at least the text that is this keyword and nothing else.
C23_SpecificBeforeGeneral ==
  /\ \A i, j \in DOMAIN ledgerKeywordMap :
       (i # j /\ includes(KeywordOf(i), KeywordOf(j))) => i < j
  /\ (Returned /\ IsText) =>
       \A i \in DOMAIN ledgerKeywordMap :
         content.str = KeywordOf(i) => SetMin(KeywordsInText) = i

\* C24: with no keyword in the text, when the capture of the first pattern
\* that resolves is not empty but is cleaned to the empty string, every
\* canonical name contains the cleaned capture and the result is the first
\* canonical department, 市政中心: a department, so the record is matched.
C24_EmptyCleanedCaptureGivesFirstDepartment ==
  PatternCase =>
    \A i \in Capturing :
      (CleanedCapture(i) = <<>> /\ \A j \in Resolving : i <= j) =>
        /\ CaptureOf(i) # <<>>
        /\ Containing(CleanedCapture(i)) = DOMAIN ledgerValidDepartments
        /\ i \in Resolving
        /\ returned = ledgerValidDepartments[1]
        /\ returned \in CanonicalSet

\* 责成科室进行 was classified 市政中心.
C24_Witness ==
  /\ PatternCase
  /\ content.str = <<"ze", "cheng2", "ke", "shi3", "jin", "xing2">>
  /\ CaptureOf(1) = <<"ke", "shi3">>
  /\ CleanedCapture(1) = <<>>
  /\ returned = <<"shi", "zheng", "zhong", "xin">>

\* The three validations of the handler, as conditions on the upload.
EmptyRowList == rawRows = <<>>

\* No input record is given a canonical department.
NoRecordMatched ==
  \A i \in DOMAIN rawRows : DepartmentOfRow(processRow(rawRows[i])) \notin CanonicalSet

\* C25 as stated: the validations decide in the order empty row list,
\* missing 答复内容 column, zero matched records, and an input without the
\* column always reports the missing-column error, never the no-matches one.
C25_AbsentColumnAlwaysMissingColumnError ==
  Handled =>
    /\ EmptyRowList => res.error = "EmptyFile"
    /\ (~EmptyRowList /\ ColumnAbsent) => res.error = "MissingColumn"
    /\ (~EmptyRowList /\ ~ColumnAbsent /\ NoRecordMatched) => res.error = "NoMatches"
    /\ ColumnAbsent => (res.error = "MissingColumn" /\ res.error # "NoMatches")

\* C25, amended: the validations decide in the order empty row list, missing
\* 答复内容 column, zero matched records, the first failing one giving the
\* error and none failing giving the workbook; an input without the column
\* has no matched record, and it reports the empty-file error when it has no
\* row and the missing-column error when it has one, never the no-matches
\* error.
C25_ValidationsInFixedOrder ==
  Handled =>
    LET noneMatched == NoRecordMatched
        absent == ColumnAbsent
    IN  /\ EmptyRowList => res.error = "EmptyFile"
        /\ (~EmptyRowList /\ absent) => res.error = "MissingColumn"
        /\ (~EmptyRowList /\ ~absent /\ noneMatched) => res.error = "NoMatches"
        /\ (~EmptyRowList /\ ~absent /\ ~noneMatched) =>
             (workbook # <<>> /\ res.error \notin {"EmptyFile", "MissingColumn", "NoMatches"})
        /\ res.error \in {"EmptyFile", "MissingColumn", "NoMatches"} =>
             (pc = "done" /\ res.status = 400 /\ NoReport)
        /\ absent =>
             /\ noneMatched
             /\ EveryRecordUnmatched
             /\ res.error = (IF EmptyRowList THEN "EmptyFile" ELSE "MissingColumn")
             /\ res.error # "NoMatches"

\* Two rows without 答复内容 under a header without it: no record matched,
\* and the error was the missing-column one.
C25_Witness ==
  /\ Handled
  /\ Len(rawRows) = 2
  /\ ColumnAbsent
  /\ NoRecordMatched
  /\ res.error = "MissingColumn"
  /\ res.status = 400

\* The breakdown without its three total rows.
PerDepartment == SubSeq(Breakdown, 1, Len(Breakdown) - 3)

\* C26: the per-department part of the breakdown has a row for exactly the
\* canonical departments that received a record (a row of the matched
\* records sheet), each once, with the number of its records, which is at
\* least 1; so it has between 1 and 15 rows.
C26_OnlyDepartmentsWithRecords ==
  workbook # <<>> =>
    LET part == PerDepartment
        matched == MatchedSheet
        RecordsOf(d) ==
          Cardinality({j \in DOMAIN matched : DepartmentOfRow(matched[j]) = d})
    IN  /\ \A i \in DOMAIN part :
             /\ part[i].count >= 1
             /\ part[i].count = RecordsOf(part[i].department)
             /\ part[i].department \in CanonicalSet
        /\ \A i, j \in DOMAIN part :
             part[i].department = part[j].department => i = j
        /\ \A d \in CanonicalSet :
             RecordsOf(d) = 0 <=> ~\E i \in DOMAIN part : part[i].department = d
        /\ Len(part) >= 1
        /\ Len(part) <= Len(ledgerValidDepartments)
        /\ Len(ledgerValidDepartments) = 15

\* A breakdown of two departments, one of them with two records or more,
\* while other canonical departments received none.
C26_Witness ==
  /\ workbook # <<>>
  /\ Len(PerDepartment) = 2
  /\ \E i \in DOMAIN PerDepartment : PerDepartment[i].count >= 2
  /\ \E d \in CanonicalSet :
       \A j \in DOMAIN MatchedSheet : DepartmentOfRow(MatchedSheet[j]) # d

(***************************************************************************)
(* POST /api/convert (lines 604-712).  After the temporary input file is   *)
(* created the handler spawns ffmpeg, registers its callbacks, pipes the   *)
(* process's stdout into the response and returns; from then on the event  *)
(* loop runs the callbacks, one at a time, as the events are emitted.      *)
(***************************************************************************)
\* Most 'error' events of one emitter in a request.
MaxErrorEvents == 2

\* What the callbacks share: the variables of the handler's closure, and
\* the count of cleanup invocations.
Closure ==
  [tempFile |-> tempFile, finished |-> finished, res |-> convertRes, cleanups |-> cleanups]

\* res.destroy(error)
destroy(r) == [r EXCEPT !.destroyed = TRUE, !.destroyCalls = @ + 1]

\* res.status(code).json(body): the head and the body are written and the
\* response is ended.
json(r, code, body) ==
  [r EXCEPT !.statusCode = code, !.headersSent = TRUE, !.writableEnded = TRUE,
            !.bodies = Append(@, body)]

\* cleanupTempFile that leaves tempFile as it is.
cleanupTempFileKeeping(k) ==
  IF k.tempFile # "file" THEN k ELSE [k EXCEPT !.cleanups = @ + 1]

\* Lines 631-639; cleanup() starts the rm of the working directory
\* (lines 112-118).
cleanupTempFile(k) ==
  IF k.tempFile # "file"
  THEN k
  ELSE [k EXCEPT !.tempFile = "null", !.cleanups = @ + 1]

\* handleError without the test of res.headersSent and res.writableEnded.
handleErrorWithoutSentTest(k) ==
  IF k.finished
  THEN IF ~k.res.writableEnded THEN [k EXCEPT !.res = destroy(@)] ELSE k
  ELSE [cleanupTempFile([k EXCEPT !.finished = TRUE])
          EXCEPT !.res = json(@, 500, "ConvertFailed")]

\* Lines 660-683.
handleError(k) ==
  IF k.finished
  THEN IF ~k.res.writableEnded THEN [k EXCEPT !.res = destroy(@)] ELSE k
  ELSE LET cleaned == cleanupTempFile([k EXCEPT !.finished = TRUE])
       IN  IF cleaned.res.headersSent \/ cleaned.res.writableEnded
           THEN IF ~cleaned.res.writableEnded
                THEN [cleaned EXCEPT !.res = destroy(@)]
                ELSE cleaned
           ELSE [cleaned EXCEPT !.res = json(@, 500, "ConvertFailed")]

\* The closure after a callback.
Becomes(k) ==
  /\ tempFile' = k.tempFile
  /\ finished' = k.finished
  /\ convertRes' = k.res
  /\ cleanups' = k.cleanups

NotConvert == UNCHANGED <<cvars, hvars, ovars, svars>>

\* Lines 604-712, the handler up to its return: without a file 400; when
\* createTempInputFile rejects 500; otherwise ffmpeg is spawned, the
\* callbacks are registered, the headers are set and stdout is piped.
PostConvert ==
  /\ cpc = "request"
  /\ \E file \in {"undefined", "file"}, created \in BOOLEAN :
       IF file = "undefined"
       THEN /\ convertRes' = json(convertRes, 400, "NoFile")
            /\ cpc' = "done"
            /\ UNCHANGED <<tempFile, ffmpeg>>
       ELSE IF ~created
       THEN /\ convertRes' = json(convertRes, 500, "TempFileFailed")
            /\ cpc' = "done"
            /\ UNCHANGED <<tempFile, ffmpeg>>
       ELSE /\ tempFile' = "file"
            /\ ffmpeg' = [ffmpeg EXCEPT !.spawned = TRUE]
            /\ cpc' = "piping"
            /\ UNCHANGED convertRes
  /\ UNCHANGED <<finished, cleanups, fired>>
  /\ NotConvert

\* Line 711: the pipe writes a chunk of stdout to the response; the first
\* write sends the headers.
StdoutData ==
  /\ cpc = "piping"
  /\ ~ffmpeg.stdoutEnded
  /\ ~convertRes.writableEnded /\ ~convertRes.destroyed /\ fired.resClose = 0
  /\ ~convertRes.headersSent
  /\ convertRes' = [convertRes EXCEPT !.headersSent = TRUE]
  /\ UNCHANGED <<cpc, tempFile, finished, ffmpeg, cleanups, fired>>
  /\ NotConvert

\* Line 711: stdout ends and the pipe ends the response.
StdoutEnd ==
  /\ cpc = "piping"
  /\ ~ffmpeg.stdoutEnded
  /\ ffmpeg' = [ffmpeg EXCEPT !.stdoutEnded = TRUE]
  /\ convertRes' =
       IF ~convertRes.writableEnded /\ ~convertRes.destroyed /\ fired.resClose = 0
       THEN [convertRes EXCEPT !.headersSent = TRUE, !.writableEnded = TRUE]
       ELSE convertRes
  /\ UNCHANGED <<cpc, tempFile, finished, cleanups, fired>>
  /\ NotConvert

\* Line 685: ffmpeg emits 'error'.
FfmpegError ==
  /\ cpc = "piping"
  /\ fired.ffmpegError < MaxErrorEvents
  /\ fired' = [fired EXCEPT !.ffmpegError = @ + 1]
  /\ Becomes(handleError(Closure))
  /\ UNCHANGED <<cpc, ffmpeg>>
  /\ NotConvert

\* Lines 687-689: ffmpeg.stdout emits 'error'.
StdoutError ==
  /\ cpc = "piping"
  /\ fired.stdoutError < MaxErrorEvents
  /\ fired' = [fired EXCEPT !.stdoutError = @ + 1]
  /\ Becomes(handleError(Closure))
  /\ UNCHANGED <<cpc, ffmpeg>>
  /\ NotConvert

\* Lines 691-699: ffmpeg emits 'close', once, with its exit code (null
\* when a signal ended it).
FfmpegClose ==
  /\ cpc = "piping"
  /\ fired.ffmpegClose = 0
  /\ fired' = [fired EXCEPT !.ffmpegClose = 1]
  /\ \E code \in {"0", "1", "null"} :
       LET cleaned == cleanupTempFile(Closure)
       IN  IF code # "0"
           THEN Becomes(handleError(cleaned))
           ELSE Becomes([cleaned EXCEPT !.finished = TRUE])
  /\ UNCHANGED <<cpc, ffmpeg>>
  /\ NotConvert

\* Lines 704-709: the response emits 'close', once: after it was ended or
\* destroyed, or when the client went away.
ResClose ==
  /\ cpc = "piping"
  /\ fired.resClose = 0
  /\ fired' = [fired EXCEPT !.resClose = 1]
  /\ ffmpeg' = [ffmpeg EXCEPT !.killed = TRUE]
  /\ Becomes(cleanupTempFile(Closure))
  /\ UNCHANGED cpc
  /\ NotConvert

NextConvert ==
  \/ PostConvert
  \/ StdoutData
  \/ StdoutEnd
  \/ FfmpegError
  \/ StdoutError
  \/ FfmpegClose
  \/ ResClose

SpecConvert == Init /\ [][NextConvert]_vars

(***************************************************************************)
(* Properties of POST /api/convert, checked under SpecConvert.             *)
(***************************************************************************)
\* How many events of the four kinds were emitted.
EventsFired == fired.ffmpegError + fired.stdoutError + fired.ffmpegClose + fired.resClose

\* The temporary input file was created.
TempFileCreated == cpc = "piping"

\* C27: once the temporary input file exists, the removal of the working
\* directory is invoked never twice, and it has been invoked once as soon as
\* an ffmpeg 'error', a stdout 'error', an ffmpeg 'close' or a response
\* 'close' was emitted, whatever their number and order; tempFile is null
\* from then on.
C27_CleanupExactlyOnce ==
  /\ cleanups <= 1
  /\ TempFileCreated =>
       /\ EventsFired = 0 => (cleanups = 0 /\ tempFile = "file")
       /\ EventsFired > 0 => (cleanups = 1 /\ tempFile = "null")
  /\ ~TempFileCreated => cleanups = 0

\* Two 'error' events of each emitter and both 'close' events were emitted,
\* and the removal was invoked once.
C27_Witness ==
  /\ TempFileCreated
  /\ fired = [ffmpegError |-> 2, stdoutError |-> 2, ffmpegClose |-> 1, resClose |-> 1]
  /\ cleanups = 1

\* The 500 bodies of handleError that were written.
ErrorBodies == SelectSeq(convertRes.bodies, LAMBDA b : b = "ConvertFailed")

\* C28: the 500 JSON error body is written at most once, and only by a step
\* before which no header was sent and the response was not ended; an error
\* after the first one writes nothing, and destroy is called only on a
\* response that is not ended.
C28_ErrorBodyAtMostOnce ==
  /\ [](Len(ErrorBodies) <= 1 /\ Len(convertRes.bodies) <= 1)
  /\ [][/\ convertRes'.bodies # convertRes.bodies =>
             (~convertRes.headersSent /\ ~convertRes.writableEnded /\ ~finished)
        /\ finished => convertRes'.bodies = convertRes.bodies
        /\ convertRes'.destroyCalls # convertRes.destroyCalls =>
             (~convertRes.writableEnded /\ convertRes'.bodies = convertRes.bodies)
       ]_vars

\* After the headers were sent, errors came: the first one destroyed the
\* response, a later one destroyed it again, and no body was written.
C28_Witness ==
  /\ TempFileCreated
  /\ convertRes.headersSent
  /\ ~convertRes.writableEnded
  /\ convertRes.destroyCalls >= 2
  /\ convertRes.bodies = <<>>
  /\ fired.ffmpegError + fired.stdoutError >= 2

(***************************************************************************)
(* The browser conversion store (useConversionStore.ts).  tasks[c] is the  *)
(* state of the promise that line 130 made of the c-th convert call:       *)
(* "queued" until task is called, "loading" while task awaits               *)
(* ensureFFmpeg, "running" while it is inside its try, then "fulfilled" or *)
(* "rejected".  commandQueue is the last of these promises.                *)
(***************************************************************************)
\* Most convert calls.
MaxConvertCalls == 3

Settled == {"fulfilled", "rejected"}

\* commandQueue before the c-th call (line 35: Promise.resolve() at first).
commandQueueBefore(c) == IF c = 1 THEN "fulfilled" ELSE tasks[c - 1]

\* commandQueue.then(task): task is called when the promise is fulfilled,
\* and a rejection is passed on.
thenCallsOnFulfilled(promise) == promise = "fulfilled"

\* Line 130, commandQueue.then(task, task): task is called when the promise
\* is fulfilled and when it is rejected.
thenCalls(promise) == promise \in Settled

\* The tasks awaiting loadPromise are rejected with it.
RejectLoading == [c \in DOMAIN tasks |-> IF tasks[c] = "loading" THEN "rejected" ELSE tasks[c]]

NotStore == UNCHANGED <<cvars, hvars, ovars, kvars>>

InitStore ==
  /\ content = JSUndefined
  /\ returned = NotCalled
  /\ HandlerIdle
  /\ window \in {"object", "undefined"}

\* Lines 74-75 and 130-131: convert sets the status and chains its task.
convert ==
  /\ Len(tasks) < MaxConvertCalls
  /\ store' = [status |-> "converting", error |-> "null", result |-> "null"]
  /\ tasks' = Append(tasks, "queued")
  /\ UNCHANGED <<window, ffmpegInstance, loadPromise>>
  /\ NotStore

\* Line 73.
reset ==
  /\ store' = [status |-> "idle", result |-> "null", error |-> "null"]
  /\ UNCHANGED <<window, ffmpegInstance, loadPromise, tasks>>
  /\ NotStore

\* Lines 77-78 and 40-65: the task is called and runs ensureFFmpeg up to
\* its await; without a window ensureFFmpeg throws and the task's promise
\* is rejected.
TaskStart(c) ==
  /\ c \in DOMAIN tasks
  /\ tasks[c] = "queued"
  /\ thenCalls(commandQueueBefore(c))
  /\ IF window = "undefined"
     THEN /\ tasks' = [tasks EXCEPT ![c] = "rejected"]
          /\ UNCHANGED <<ffmpegInstance, loadPromise>>
     ELSE /\ ffmpegInstance' = "instance"
          /\ loadPromise' = IF loadPromise = "null" THEN "pending" ELSE loadPromise
          /\ tasks' = [tasks EXCEPT ![c] = "loading"]
  /\ UNCHANGED <<window, store>>
  /\ NotStore

\* Lines 56-57: ffmpegInstance.load() is fulfilled.
LoadFulfilled ==
  /\ loadPromise = "pending"
  /\ loadPromise' = "fulfilled"
  /\ UNCHANGED <<window, store, ffmpegInstance, tasks>>
  /\ NotStore

\* Lines 58-62 and 65, 78: load() is rejected; the catch clears
\* ffmpegInstance and loadPromise and throws again, the await of line 65
\* throws, and so does the await of line 78, outside the try of the task.
LoadRejected ==
  /\ loadPromise = "pending"
  /\ ffmpegInstance' = "null"
  /\ loadPromise' = "null"
  /\ tasks' = RejectLoading
  /\ UNCHANGED <<window, store>>
  /\ NotStore

\* Lines 65-66 and 78-88: ensureFFmpeg returns and the task enters its try.
EnsureReturns(c) ==
  /\ c \in DOMAIN tasks
  /\ tasks[c] = "loading"
  /\ loadPromise = "fulfilled"
  /\ tasks' = [tasks EXCEPT ![c] = "running"]
  /\ UNCHANGED <<window, store, ffmpegInstance, loadPromise>>
  /\ NotStore

\* Lines 85-106 and 116-128: the conversion succeeded.
TaskSucceeds(c) ==
  /\ c \in DOMAIN tasks
  /\ tasks[c] = "running"
  /\ store' = [store EXCEPT !.status = "success", !.result = "url"]
  /\ tasks' = [tasks EXCEPT ![c] = "fulfilled"]
  /\ UNCHANGED <<window, ffmpegInstance, loadPromise>>
  /\ NotStore

\* Lines 107-128: something threw inside the try.
TaskFails(c) ==
  /\ c \in DOMAIN tasks
  /\ tasks[c] = "running"
  /\ store' = [store EXCEPT !.status = "error", !.error = "failed"]
  /\ tasks' = [tasks EXCEPT ![c] = "fulfilled"]
  /\ UNCHANGED <<window, ffmpegInstance, loadPromise>>
  /\ NotStore

\* What the event loop does of a task once it can: its promise callbacks.
TaskSteps ==
  \/ \E c \in 1..MaxConvertCalls : TaskStart(c)
  \/ LoadFulfilled
  \/ LoadRejected
  \/ \E c \in 1..MaxConvertCalls : EnsureReturns(c)
  \/ \E c \in 1..MaxConvertCalls : TaskSucceeds(c)
  \/ \E c \in 1..MaxConvertCalls : TaskFails(c)

NextStore == convert \/ reset \/ TaskSteps

SpecStore == InitStore /\ [][NextStore]_vars

\* The user may stop calling; a promise callback that can run does run, and
\* load, arrayBuffer and run are settled at some time.
SpecStoreFair == SpecStore /\ WF_vars(TaskSteps)

(***************************************************************************)
(* Properties of the store.                                                *)
(***************************************************************************)
Called(c) == c \in DOMAIN tasks

Ended == {"success", "error"}

\* C29: in the browser, every convert call is followed by a state in which
\* its task has finished and the status is success or error, whether or not
\* loading the core failed and whatever came before the call; and when
\* every task has finished the status is not converting.
C29_EveryCallEndsInSuccessOrError ==
  window = "object" =>
    /\ \A c \in 1..MaxConvertCalls :
         Called(c) ~> (Called(c) /\ tasks[c] \in Settled /\ store.status \in Ended)
    /\ []((tasks # <<>> /\ \A c \in DOMAIN tasks : tasks[c] \in Settled)
            => store.status # "converting")

Between(c) == tasks[c] \in {"loading", "running"}

\* C30: at most one task is between its start and its finish; a task has
\* started only when every task of an earlier call has finished, so tasks
\* run in call order; and the task next in line can start as soon as the
\* task before it has finished, fulfilled or rejected.
C30_TasksSerialized ==
  /\ \A c, d \in DOMAIN tasks : (Between(c) /\ Between(d)) => c = d
  /\ \A c, d \in DOMAIN tasks :
       (c < d /\ tasks[d] # "queued") => tasks[c] \in Settled
  /\ \A c \in DOMAIN tasks :
       (tasks[c] = "queued" /\ commandQueueBefore(c) \in Settled) => ENABLED TaskStart(c)
  /\ \A c \in DOMAIN tasks :
       (tasks[c] = "queued" /\ commandQueueBefore(c) \notin Settled) => ~ENABLED TaskStart(c)

\* Three overlapping calls: the first task was rejected, the second one
\* runs after it, the third waits.
C30_Witness ==
  /\ tasks = <<"rejected", "running", "queued">>
  /\ store.status = "converting"
====
